---------------------------- MODULE Spec2Model ----------------------------
(***************************************************************************)
(* FileFusion (src/filefusion): the scan / filter / classify / read /      *)
(* assemble pipeline of cli.main, its worker pool, and the file system it  *)
(* runs against.                                                           *)
(*                                                                         *)
(* Paths and extension lists are strings, handled character by character   *)
(* as the Python string methods do.  File contents are sequences of byte   *)
(* values, decoded to sequences of code points by the UTF-8 rules for one- *)
(* and two-byte characters.                                                *)
(***************************************************************************)
EXTENDS Integers, Sequences, FiniteSets, TLC

(***************************************************************************)
(* Bounds of the exploration.                                              *)
(***************************************************************************)
MaxLen == 3          \* longest file content enumerated, in bytes
MaxChanges == 2      \* changes other processes make to the files in one behaviour
MaxRuns == 2         \* consecutive runs of the program with one configuration

(***************************************************************************)
(* Program constants.  The three sizes are scaled down so that contents of *)
(* MaxLen bytes lie below, at and above each of them.                      *)
(***************************************************************************)
chunk_size == 2      \* file_processor.py: chunk_size = 4096
sample_size == 2     \* helpers.py: sample_size=8192
KB == 2              \* file_processor.py / helpers.py: 1024

(***************************************************************************)
(* str methods                                                             *)
(***************************************************************************)
Upper == "ABCDEFGHIJKLMNOPQRSTUVWXYZ"
Lower == "abcdefghijklmnopqrstuvwxyz"

char(s, i) == SubSeq(s, i, i)

lowerChar(c) ==
    IF \E i \in 1..26 : char(Upper, i) = c
    THEN char(Lower, CHOOSE i \in 1..26 : char(Upper, i) = c)
    ELSE c

RECURSIVE lower(_)
lower(s) == IF s = "" THEN "" ELSE lowerChar(Head(s)) \o lower(Tail(s))

endswith(s, e) ==
    /\ Len(e) <= Len(s)
    /\ SubSeq(s, Len(s) - Len(e) + 1, Len(s)) = e

RECURSIVE lstrip(_, _)
lstrip(s, c) == IF s # "" /\ Head(s) = c THEN lstrip(Tail(s), c) ELSE s

\* s.split(sep) for a one-character sep: always at least one piece
RECURSIVE split(_, _)
split(s, sep) ==
    IF \A i \in 1..Len(s) : char(s, i) # sep
    THEN <<s>>
    ELSE LET i == CHOOSE k \in 1..Len(s) :
                      /\ char(s, k) = sep
                      /\ \A j \in 1..(k - 1) : char(s, j) # sep
         IN  <<SubSeq(s, 1, i - 1)>> \o split(SubSeq(s, i + 1, Len(s)), sep)

(***************************************************************************)
(* os.path (posixpath)                                                     *)
(***************************************************************************)
cwd == "/w"

isabs(p) == p # "" /\ Head(p) = "/"

join(a, b) ==
    IF isabs(b) THEN b
    ELSE IF a = "" \/ endswith(a, "/") THEN a \o b
    ELSE a \o "/" \o b

\* the components kept by normpath: "" and "." dropped, ".." cancels the
\* component before it (and is dropped at the root of an absolute path)
RECURSIVE normcomps(_, _, _)
normcomps(comps, acc, absolute) ==
    IF comps = <<>> THEN acc
    ELSE LET c == Head(comps)
             rest == Tail(comps)
         IN  IF c = "" \/ c = "." THEN normcomps(rest, acc, absolute)
             ELSE IF c = ".."
             THEN IF acc # <<>> /\ acc[Len(acc)] # ".."
                  THEN normcomps(rest, SubSeq(acc, 1, Len(acc) - 1), absolute)
                  ELSE IF absolute THEN normcomps(rest, acc, absolute)
                  ELSE normcomps(rest, Append(acc, c), absolute)
             ELSE normcomps(rest, Append(acc, c), absolute)

RECURSIVE joincomps(_)
joincomps(comps) ==
    IF comps = <<>> THEN ""
    ELSE IF Len(comps) = 1 THEN comps[1]
    ELSE comps[1] \o "/" \o joincomps(Tail(comps))

normpath(p) ==
    LET comps == normcomps(split(p, "/"), <<>>, isabs(p))
        body == joincomps(comps)
    IN  IF isabs(p) THEN "/" \o body
        ELSE IF body = "" THEN "." ELSE body

abspath(p) == normpath(IF isabs(p) THEN p ELSE join(cwd, p))

\* the components of an absolute normalised path
abscomps(p) == normcomps(split(abspath(p), "/"), <<>>, TRUE)

RECURSIVE commonlen(_, _)
commonlen(a, b) ==
    IF a = <<>> \/ b = <<>> \/ Head(a) # Head(b) THEN 0
    ELSE 1 + commonlen(Tail(a), Tail(b))

relpath(p, start) ==
    LET pl == abscomps(p)
        sl == abscomps(start)
        i == commonlen(sl, pl)
        ups == [k \in 1..(Len(sl) - i) |-> ".."]
        rel == ups \o SubSeq(pl, i + 1, Len(pl))
    IN  IF rel = <<>> THEN "." ELSE joincomps(rel)

dirname(p) ==
    LET k == abscomps(p)
    IN  "/" \o joincomps(SubSeq(k, 1, Len(k) - 1))

(***************************************************************************)
(* bytes and text                                                          *)
(***************************************************************************)
NUL == 0
LF == 10
CR == 13

\* the byte values contents are drawn from: NUL, LF, CR, "a", and the two
\* bytes C3 A9 of a two-byte character (U+00E9)
Bytes == {NUL, LF, CR, 97, 195, 169}

\* bytes.decode('utf-8'), strict: [ok, text], text the code points
RECURSIVE decode(_)
decode(b) ==
    IF b = <<>> THEN [ok |-> TRUE, text |-> <<>>]
    ELSE IF b[1] < 128
    THEN LET r == decode(Tail(b))
         IN  [ok |-> r.ok, text |-> <<b[1]>> \o r.text]
    ELSE IF /\ b[1] >= 194 /\ b[1] <= 223
            /\ Len(b) >= 2 /\ b[2] >= 128 /\ b[2] <= 191
    THEN LET r == decode(Tail(Tail(b)))
         IN  [ok |-> r.ok,
              text |-> <<(b[1] - 192) * 64 + (b[2] - 128)>> \o r.text]
    ELSE [ok |-> FALSE, text |-> <<>>]

\* text mode with newline=None: "\r\n" and "\r" are read as "\n"
RECURSIVE universal_newlines(_)
universal_newlines(t) ==
    IF t = <<>> THEN <<>>
    ELSE IF t[1] = CR
    THEN IF Len(t) >= 2 /\ t[2] = LF
         THEN <<LF>> \o universal_newlines(Tail(Tail(t)))
         ELSE <<LF>> \o universal_newlines(Tail(t))
    ELSE <<t[1]>> \o universal_newlines(Tail(t))

\* f.read(n): at most n items from the start of the stream
read(stream, n) == SubSeq(stream, 1, IF n < Len(stream) THEN n ELSE Len(stream))

\* for chunk in iter(lambda: infile.read(chunk_size), ''): content += chunk
RECURSIVE read_chunks(_, _)
read_chunks(stream, content) ==
    LET chunk == read(stream, chunk_size)
    IN  IF chunk = <<>> THEN content
        ELSE read_chunks(SubSeq(stream, Len(chunk) + 1, Len(stream)),
                         content \o chunk)

(***************************************************************************)
(* The file system: the nodes by absolute path.  Universe fixes the order  *)
(* in which a directory lists its entries.                                 *)
(***************************************************************************)
Universe ==
    <<"/w", "/r", "/w/p", "/w/p/a.t", "/w/p/b.T", "/w/p/o.t", "/w/p/s",
      "/w/p/s/c.b", "/w/o.t", "/r/o.t">>

AbsPaths == {Universe[i] : i \in 1..Len(Universe)}

NoNode == [kind |-> "none", present |-> FALSE, r |-> FALSE, w |-> FALSE,
           data |-> <<>>]

Node(f, p) == IF abspath(p) \in DOMAIN f THEN f[abspath(p)] ELSE NoNode

isdir(f, p) == Node(f, p).present /\ Node(f, p).kind = "dir"
isfile(f, p) == Node(f, p).present /\ Node(f, p).kind = "file"
access_R_OK(f, p) == Node(f, p).present /\ Node(f, p).r

\* os.stat / os.path.getsize: the size, or an OSError
stat(f, p) ==
    IF Node(f, p).present
    THEN [ok |-> TRUE, st_size |-> Len(Node(f, p).data)]
    ELSE [ok |-> FALSE, st_size |-> 0]

\* open(path, 'rb') / open(path, 'r'): the bytes, or an OSError
open_read(f, p) ==
    IF isfile(f, p) /\ Node(f, p).r
    THEN [ok |-> TRUE, data |-> Node(f, p).data]
    ELSE [ok |-> FALSE, data |-> <<>>]

\* open(path, 'w') succeeds on a writable file, or a missing one in a
\* writable directory
can_open_write(f, p) ==
    IF Node(f, p).present
    THEN Node(f, p).kind = "file" /\ Node(f, p).w
    ELSE /\ abspath(p) \in DOMAIN f
         /\ isdir(f, dirname(p)) /\ Node(f, dirname(p)).w

basename(k) == LET c == abscomps(k) IN c[Len(c)]

\* the entries of directory d, in listing order
entries(f, d) ==
    SelectSeq(Universe,
              LAMBDA k : k # "/" /\ f[k].present /\ k # abspath(d)
                         /\ dirname(k) = abspath(d))

RECURSIVE names(_)
names(ks) == IF ks = <<>> THEN <<>> ELSE <<basename(Head(ks))>> \o names(Tail(ks))

\* os.listdir(d): the names, or an OSError when d cannot be read
listdir(f, d) ==
    IF isdir(f, d) /\ Node(f, d).r
    THEN [ok |-> TRUE, names |-> names(entries(f, d))]
    ELSE [ok |-> FALSE, names |-> <<>>]

RECURSIVE joinall(_, _)
joinall(d, ns) ==
    IF ns = <<>> THEN <<>> ELSE <<join(d, Head(ns))>> \o joinall(d, Tail(ns))

\* os.walk(top), default onerror: a directory that cannot be listed
\* contributes nothing; files of a directory come before its subdirectories
RECURSIVE walk(_, _, _)
walk(f, top, depth) ==
    LET l == listdir(f, top)
        files == SelectSeq(l.names, LAMBDA n : ~isdir(f, join(top, n)))
        dirs == SelectSeq(l.names, LAMBDA n : isdir(f, join(top, n)))
        sub[i \in 0..Len(dirs)] ==
            IF i = 0 THEN <<>>
            ELSE sub[i - 1] \o walk(f, join(top, dirs[i]), depth - 1)
    IN  IF ~l.ok \/ depth = 0 THEN <<>>
        ELSE joinall(top, files) \o sub[Len(dirs)]

TreeDepth == 3

\* get_all_files: [ok, file_list]; not ok when os.listdir raises
get_all_files(f, directory, recursive) ==
    IF recursive
    THEN [ok |-> TRUE, file_list |-> walk(f, directory, TreeDepth)]
    ELSE LET l == listdir(f, directory)
         IN  [ok |-> l.ok,
              file_list |-> SelectSeq(joinall(directory, l.names),
                                      LAMBDA item_path : isfile(f, item_path))]

(***************************************************************************)
(* filefusion/utils/helpers.py                                             *)
(***************************************************************************)
\* a classifier that takes a file it cannot open for text
is_binary_unreadable_is_text(f, file_path) ==
    LET o == open_read(f, file_path)
        chunk == read(o.data, sample_size)
    IN  IF ~o.ok THEN FALSE
        ELSE IF \E i \in 1..Len(chunk) : chunk[i] = NUL THEN TRUE
        ELSE ~decode(chunk).ok

is_binary(f, file_path) ==
    LET o == open_read(f, file_path)
        chunk == read(o.data, sample_size)
    IN  IF ~o.ok THEN TRUE
        ELSE IF \E i \in 1..Len(chunk) : chunk[i] = NUL THEN TRUE
        ELSE ~decode(chunk).ok

\* <<hundredths or bytes, unit>>: "%d bytes", "%.2f KB", "%.2f MB"
get_human_readable_size(size_bytes) ==
    IF size_bytes > KB * KB
    THEN <<(size_bytes * 100 + (KB * KB) \div 2) \div (KB * KB), "MB">>
    ELSE IF size_bytes > KB
    THEN <<(size_bytes * 100 + KB \div 2) \div KB, "KB">>
    ELSE <<size_bytes, "bytes">>

\* a metadata reader whose fallback still formats a size of 0
get_file_metadata_formatted_fallback(f, file_path) ==
    LET stats == stat(f, file_path)
        size == IF stats.ok THEN stats.st_size ELSE 0
    IN  IF stats.ok
        THEN [size |-> size, size_str |-> get_human_readable_size(size),
              created |-> "ctime", modified |-> "mtime"]
        ELSE [size |-> size, size_str |-> get_human_readable_size(size),
              created |-> "Unknown", modified |-> "Unknown",
              error |-> "OSError"]

get_file_metadata(f, file_path) ==
    LET stats == stat(f, file_path)
    IN  IF stats.ok
        THEN [size |-> stats.st_size,
              size_str |-> get_human_readable_size(stats.st_size),
              created |-> "ctime", modified |-> "mtime"]
        ELSE [size |-> 0, size_str |-> <<0, "Unknown">>,
              created |-> "Unknown", modified |-> "Unknown",
              error |-> "OSError"]

(***************************************************************************)
(* filefusion/core/file_processor.py                                       *)
(***************************************************************************)
truthy_str(v) == v # ""
\* an optional int is <<>> (None) or <<n>>
truthy_int(v) == v # <<>> /\ v[1] # 0

\* a comparison that tells upper case from lower case
matches_extension_exact_case(file_path, exts) ==
    LET toks == split(exts, ",")
    IN  \E i \in 1..Len(toks) :
            endswith(file_path, "." \o lstrip(toks[i], "."))

\* any(file_path.lower().endswith(ext.lower()) for ext in
\*     [f".{ext.lstrip('.')}" for ext in exts.split(',')])
matches_extension(file_path, exts) ==
    LET toks == split(exts, ",")
    IN  \E i \in 1..Len(toks) :
            endswith(lower(file_path), lower("." \o lstrip(toks[i], ".")))

\* should_process_file, line 45: the file exists and is readable
exists_readable(f, file_path) ==
    isfile(f, file_path) /\ access_R_OK(f, file_path)

\* the two paths compared as given
is_output_file_as_given(file_path, args) == file_path = args.output

is_output_file(file_path, args) == abspath(file_path) = abspath(args.output)

\* should_process_file from line 48 on: "True", "False", or "OSError" when
\* os.path.getsize raises
should_process_rules(f, file_path, args) ==
    IF is_output_file(file_path, args) THEN "False"
    ELSE IF truthy_int(args.max_size) /\ ~stat(f, file_path).ok THEN "OSError"
    ELSE IF /\ truthy_int(args.max_size)
            /\ stat(f, file_path).st_size > args.max_size[1] * KB
    THEN "False"
    ELSE IF truthy_str(args.include) /\ ~matches_extension(file_path, args.include)
    THEN "False"
    ELSE IF truthy_str(args.exclude) /\ matches_extension(file_path, args.exclude)
    THEN "False"
    ELSE "True"

\* the rendering inputs of the per-file header, and the footer text (the
\* Markdown code fence is written <fence>)
build_file_header(file_path, args, metadata, comment_style) ==
    LET rel_path == relpath(file_path, args.path)
        fields == [format |-> args.format, rel_path |-> rel_path,
                   size_str |-> metadata.size_str,
                   created |-> metadata.created,
                   modified |-> metadata.modified]
    IN  IF args.format = "text"
        THEN [header |-> [comment_style |-> comment_style] @@ fields,
              footer |-> "\n\n"]
        ELSE IF args.format = "md"
        THEN [header |-> fields, footer |-> "<fence>\n\n"]
        ELSE [header |-> fields, footer |-> "</code></pre>\n</div>\n\n"]

skipped_result(file_path, reason) ==
    [file_path |-> file_path, status |-> "skipped", reason |-> reason]

error_result(file_path, reason) ==
    [file_path |-> file_path, status |-> "error", reason |-> reason]

\* the read without the inner except clause: a decoding failure is caught by
\* the outer handler
read_result_outer_handler(f, file_path, metadata, hf) ==
    LET o == open_read(f, file_path)
        d == decode(o.data)
    IN  IF ~o.ok THEN error_result(file_path, "OSError")
        ELSE IF ~d.ok THEN error_result(file_path, "UnicodeDecodeError")
        ELSE [file_path |-> file_path, status |-> "success",
              metadata |-> metadata, header |-> hf.header,
              content |-> read_chunks(universal_newlines(d.text), <<>>),
              footer |-> hf.footer]

\* process_file, lines 147-174: the read of the content and the result
read_result(f, file_path, metadata, hf) ==
    LET o == open_read(f, file_path)
        d == decode(o.data)
    IN  IF ~o.ok THEN error_result(file_path, "OSError")
        ELSE IF ~d.ok THEN skipped_result(file_path, "encoding error")
        ELSE [file_path |-> file_path, status |-> "success",
              metadata |-> metadata, header |-> hf.header,
              content |-> read_chunks(universal_newlines(d.text), <<>>),
              footer |-> hf.footer]

(***************************************************************************)
(* filefusion/core/output_formats.py: the pieces written to the document   *)
(***************************************************************************)
write_output_header(args, current_time) ==
    [kind |-> "document header", format |-> args.format, path |-> args.path,
     generated_on |-> current_time]

write_output_footer(args, stats) ==
    [kind |-> "document footer", format |-> args.format,
     processed |-> stats.processed, skipped |-> stats.skipped,
     total_size |-> stats.total_size_str]

(***************************************************************************)
(* filefusion/cli.py                                                       *)
(***************************************************************************)
with_status(results, status) ==
    SelectSeq(results, LAMBDA r : r.status = status)

\* a total that takes the length of each content for its size
RECURSIVE sum_sizes_of_contents(_)
sum_sizes_of_contents(successful) ==
    IF successful = <<>> THEN 0
    ELSE Len(Head(successful).content) + sum_sizes_of_contents(Tail(successful))

RECURSIVE sum_sizes(_)
sum_sizes(successful) ==
    IF successful = <<>> THEN 0
    ELSE Head(successful).metadata.size + sum_sizes(Tail(successful))

\* cli.main, lines 85-99
statistics(results) ==
    LET successful == with_status(results, "success")
        skipped == with_status(results, "skipped")
        errors == with_status(results, "error")
        total_size == sum_sizes(successful)
    IN  [processed |-> Len(successful),
         skipped |-> Len(skipped) + Len(errors),
         errors |-> Len(errors),
         total_size |-> total_size,
         total_size_str |-> get_human_readable_size(total_size)]

\* cli.main, lines 117-130: what the summary prints
printed_summary(results, stats) ==
    LET errors == with_status(results, "error")
    IN  [processed |-> stats.processed,
         skipped |-> Len(with_status(results, "skipped")),
         errors |-> Len(errors),
         total_size |-> stats.total_size_str,
         shown_errors |-> read(errors, 5)]

\* cli.main, lines 108-111: the three writes of each successful result
RECURSIVE write_successful(_)
write_successful(successful) ==
    IF successful = <<>> THEN <<>>
    ELSE LET result == Head(successful)
         IN  <<[kind |-> "file header", header |-> result.header],
               [kind |-> "content", content |-> result.content],
               [kind |-> "file footer", footer |-> result.footer]>>
             \o write_successful(Tail(successful))

comment_style_of(args) == IF args.comment_style = 1 THEN "//" ELSE "#"

\* str.encode('utf-8') of the code points of a content
RECURSIVE encode(_)
encode(t) ==
    IF t = <<>> THEN <<>>
    ELSE IF t[1] < 128 THEN <<t[1]>> \o encode(Tail(t))
    ELSE <<192 + (t[1] \div 64), 128 + (t[1] % 64)>> \o encode(Tail(t))

\* the bytes of the output file: each rendered header or footer stands as
\* one "#", contents are written as they are
RECURSIVE document_bytes(_)
document_bytes(d) ==
    IF d = <<>> THEN <<>>
    ELSE (IF Head(d).kind = "content" THEN encode(Head(d).content) ELSE <<35>>)
         \o document_bytes(Tail(d))

(***************************************************************************)
(* State                                                                   *)
(***************************************************************************)
VARIABLES
    args,        \* the parsed command line
    fs,          \* the file system
    env,         \* what surrounds the runs: the files other processes disturb,
                 \* and how many times the user runs the program again
    changes,     \* how many such changes have happened
    history,     \* one record per finished run: exit status, discovered
                 \* paths and document
    pc,          \* where cli.main is
    all_files,   \* the discovered paths
    futures,     \* the tasks of the ThreadPoolExecutor, in submission order
    completed,   \* the task indices in the order the tasks ended
    results,     \* the results main has collected
    stats,       \* the statistics record, <<>> before it is computed
    outfile,     \* "none", "open" or "closed": the handle of the output file
    doc,         \* the pieces written to the output file in this run
    summary,     \* the printed summary, <<>> before it is printed
    exit_code    \* -1 while running, then the exit status of the process

vars == <<args, fs, env, changes, history, pc, all_files, futures,
          completed, results, stats, outfile, doc, summary, exit_code>>

run == Len(history) + 1

Running == {i \in 1..Len(futures) : futures[i].state = "running"}
Pending == {i \in 1..Len(futures) : futures[i].state = "pending"}

new_future(file_path) ==
    [file_path |-> file_path, state |-> "pending", at |-> "line 45",
     io_failed |-> {}, metadata |-> <<>>, hf |-> <<>>, result |-> <<>>]

RECURSIVE submit_all(_)
submit_all(paths) ==
    IF paths = <<>> THEN <<>>
    ELSE <<new_future(Head(paths))>> \o submit_all(Tail(paths))

(***************************************************************************)
(* cli.main                                                                *)
(***************************************************************************)
\* an uncaught exception ends the process with status 1
Crash == pc' = "exit" /\ exit_code' = 1

\* a main that does not check the root
Validate_unchecked ==
    /\ pc = "validate"
    /\ pc' = "scan"
    /\ UNCHANGED <<args, fs, env, changes, history, all_files, futures,
                   completed, results, stats, outfile, doc, summary, exit_code>>

\* lines 52-55
Validate ==
    /\ pc = "validate"
    /\ IF isdir(fs, args.path)
       THEN pc' = "scan" /\ exit_code' = exit_code
       ELSE pc' = "exit" /\ exit_code' = 1
    /\ UNCHANGED <<args, fs, env, changes, history, all_files, futures,
                   completed, results, stats, outfile, doc, summary>>

\* lines 60-82, up to the first wait for a result: the scan, and the
\* submission of every path by executor.map
Scan ==
    /\ pc = "scan"
    /\ LET g == get_all_files(fs, args.path, args.recursive)
       IN  IF g.ok
           THEN /\ all_files' = g.file_list
                /\ futures' = submit_all(g.file_list)
                /\ pc' = "collect"
                /\ exit_code' = exit_code
           ELSE /\ Crash
                /\ UNCHANGED <<all_files, futures>>
    /\ UNCHANGED <<args, fs, env, changes, history, completed, results,
                   stats, outfile, doc, summary>>

\* a collection in completion order, as concurrent.futures.as_completed
\* would give
next_yielded_as_completed(futs, res) ==
    IF Len(res) < Len(completed) THEN completed[Len(res) + 1] ELSE 0

\* the index of the future whose result executor.map yields next
next_yielded(futs, res) == Len(res) + 1

\* lines 76-82: one iteration of the loop over executor.map.  A future
\* that raised re-raises here; the iterator then cancels the futures that
\* have not started.
Collect ==
    /\ pc = "collect"
    /\ Len(results) < Len(futures)
    /\ LET n == next_yielded(futures, results)
       IN  /\ n \in 1..Len(futures)
           /\ \/ /\ futures[n].state = "returned"
                 /\ results' = Append(results, futures[n].result)
                 /\ UNCHANGED <<pc, futures>>
              \/ /\ futures[n].state = "raised"
                 /\ futures' = [i \in 1..Len(futures) |->
                                   IF futures[i].state = "pending"
                                   THEN [futures[i] EXCEPT !.state = "cancelled"]
                                   ELSE futures[i]]
                 /\ pc' = "raising"
                 /\ UNCHANGED results
    /\ UNCHANGED <<args, fs, env, changes, history, all_files, completed,
                   stats, outfile, doc, summary, exit_code>>

\* a main that leaves the loop after the first result and shuts the pool
\* down without waiting for the tasks
Shutdown_without_waiting ==
    /\ pc = "collect"
    /\ Len(results) >= 1 \/ Len(futures) = 0
    /\ stats' = <<statistics(results)>>
    /\ pc' = "open"
    /\ UNCHANGED <<args, fs, env, changes, history, all_files, futures,
                   completed, results, outfile, doc, summary, exit_code>>

\* line 71, leaving the with block: shutdown(wait=True), then lines 85-99
Shutdown ==
    /\ pc \in {"collect", "raising"}
    /\ pc = "collect" => Len(results) = Len(futures)
    /\ Running = {}
    /\ IF pc = "raising"
       THEN Crash /\ UNCHANGED stats
       ELSE /\ stats' = <<statistics(results)>>
            /\ pc' = "open"
            /\ exit_code' = exit_code
    /\ UNCHANGED <<args, fs, env, changes, history, all_files, futures,
                   completed, results, outfile, doc, summary>>

\* line 103: open(args.output, 'w') creates or truncates the file
OpenOutput ==
    /\ pc = "open"
    /\ IF can_open_write(fs, args.output)
       THEN /\ fs' = [fs EXCEPT ![abspath(args.output)] =
                         [kind |-> "file", present |-> TRUE, r |-> TRUE,
                          w |-> TRUE, data |-> <<>>]]
            /\ outfile' = "open"
            /\ pc' = "write"
            /\ exit_code' = exit_code
       ELSE Crash /\ UNCHANGED <<fs, outfile>>
    /\ UNCHANGED <<args, env, changes, history, all_files, futures,
                   completed, results, stats, doc, summary>>

\* lines 104-114: header, the successful results in list order, footer
WriteOutput ==
    /\ pc = "write"
    /\ LET d == <<write_output_header(args, run)>>
                \o write_successful(with_status(results, "success"))
                \o <<write_output_footer(args, stats[1])>>
       IN  /\ doc' = d
           /\ fs' = [fs EXCEPT ![abspath(args.output)].data = document_bytes(d)]
    /\ outfile' = "closed"
    /\ pc' = "summary"
    /\ UNCHANGED <<args, env, changes, history, all_files, futures,
                   completed, results, stats, summary, exit_code>>

\* lines 116-132
PrintSummary ==
    /\ pc = "summary"
    /\ summary' = <<printed_summary(results, stats[1])>>
    /\ pc' = "exit"
    /\ exit_code' = 0
    /\ UNCHANGED <<args, fs, env, changes, history, all_files, futures,
                   completed, results, stats, outfile, doc>>

(***************************************************************************)
(* process_file, run by the pool's worker threads.  Each action is the     *)
(* code between two accesses to the file, which other processes may change *)
(* in between.                                                             *)
(***************************************************************************)
\* `at` is the line the task is at, or ended at; `io_failed` records the
\* steps in which opening the file failed
finish(i, result) ==
    /\ futures' = [futures EXCEPT ![i].state = "returned",
                                  ![i].result = result]
    /\ completed' = Append(completed, i)

\* the work queue is first in, first out, and at most args.workers threads
\* take from it
may_start(i) ==
    /\ futures[i].state = "pending"
    /\ \A j \in Pending : i <= j
    /\ Cardinality(Running) < args.workers

\* should_process_file, lines 44-46, reached from process_file line 127
CheckExists(i) ==
    /\ pc \in {"collect", "raising"}
    /\ may_start(i)
    /\ IF exists_readable(fs, futures[i].file_path)
       THEN /\ futures' = [futures EXCEPT ![i].state = "running",
                                          ![i].at = "line 48"]
            /\ UNCHANGED completed
       ELSE finish(i, skipped_result(futures[i].file_path,
                                     "filtered out by rules"))
    /\ UNCHANGED <<args, fs, env, changes, history, pc, all_files,
                   results, stats, outfile, doc, summary, exit_code>>

\* should_process_file, lines 48-68, and process_file lines 127-132
CheckRules(i) ==
    /\ futures[i].state = "running" /\ futures[i].at = "line 48"
    /\ LET v == should_process_rules(fs, futures[i].file_path, args)
       IN  IF v = "OSError"
           THEN /\ futures' = [futures EXCEPT ![i].state = "raised"]
                /\ completed' = Append(completed, i)
           ELSE IF v = "False"
           THEN finish(i, skipped_result(futures[i].file_path,
                                         "filtered out by rules"))
           ELSE /\ futures' = [futures EXCEPT ![i].at = "line 134"]
                /\ UNCHANGED completed
    /\ UNCHANGED <<args, fs, env, changes, history, pc, all_files,
                   results, stats, outfile, doc, summary, exit_code>>

\* a worker that skips a binary file whatever include_binary says
Classify_always_skips_binary(i) ==
    /\ futures[i].state = "running" /\ futures[i].at = "line 134"
    /\ IF is_binary(fs, futures[i].file_path)
       THEN finish(i, skipped_result(futures[i].file_path, "binary file"))
       ELSE /\ futures' = [futures EXCEPT ![i].at = "line 142"]
            /\ UNCHANGED completed
    /\ UNCHANGED <<args, fs, env, changes, history, pc, all_files,
                   results, stats, outfile, doc, summary, exit_code>>

\* process_file, lines 134-139
Classify(i) ==
    /\ futures[i].state = "running" /\ futures[i].at = "line 134"
    /\ LET failed == IF open_read(fs, futures[i].file_path).ok
                      THEN {} ELSE {"is_binary"}
       IN  IF is_binary(fs, futures[i].file_path) /\ ~args.include_binary
           THEN /\ futures' = [futures EXCEPT
                       ![i].state = "returned",
                       ![i].io_failed = failed,
                       ![i].result = skipped_result(futures[i].file_path,
                                                    "binary file")]
                /\ completed' = Append(completed, i)
           ELSE /\ futures' = [futures EXCEPT ![i].at = "line 142",
                                              ![i].io_failed = failed]
                /\ UNCHANGED completed
    /\ UNCHANGED <<args, fs, env, changes, history, pc, all_files,
                   results, stats, outfile, doc, summary, exit_code>>

\* process_file, lines 141-145
ReadMetadata(i) ==
    /\ futures[i].state = "running" /\ futures[i].at = "line 142"
    /\ LET metadata == get_file_metadata(fs, futures[i].file_path)
       IN  futures' = [futures EXCEPT
               ![i].at = "line 150",
               ![i].metadata = metadata,
               ![i].hf = build_file_header(futures[i].file_path, args, metadata,
                                           comment_style_of(args))]
    /\ UNCHANGED <<args, fs, env, changes, history, pc, all_files,
                   completed, results, stats, outfile, doc, summary, exit_code>>

\* process_file, lines 147-174
ReadContent(i) ==
    /\ futures[i].state = "running" /\ futures[i].at = "line 150"
    /\ futures' = [futures EXCEPT
           ![i].state = "returned",
           ![i].io_failed = @ \cup (IF open_read(fs, futures[i].file_path).ok
                                    THEN {} ELSE {"read"}),
           ![i].result = read_result(fs, futures[i].file_path,
                                     futures[i].metadata, futures[i].hf)]
    /\ completed' = Append(completed, i)
    /\ UNCHANGED <<args, fs, env, changes, history, pc, all_files,
                   results, stats, outfile, doc, summary, exit_code>>

(***************************************************************************)
(* Other processes: a volatile file is removed, put back, or has its read  *)
(* permission flipped.  Only the changes made while the file's task has    *)
(* not ended are followed: a later change has no effect on the run.        *)
(***************************************************************************)
Disturb(k) ==
    /\ k \in env.volatile
    /\ changes < MaxChanges
    /\ \E i \in 1..Len(futures) :
          /\ abspath(futures[i].file_path) = k
          /\ futures[i].state \in {"pending", "running"}
    /\ \/ fs' = [fs EXCEPT ![k].present = ~fs[k].present]
       \/ fs[k].present /\ fs' = [fs EXCEPT ![k].r = ~fs[k].r]
    /\ changes' = changes + 1
    /\ UNCHANGED <<args, env, history, pc, all_files, futures, completed,
                   results, stats, outfile, doc, summary, exit_code>>

(***************************************************************************)
(* The program is run again with the same command line, after a run that   *)
(* no other process disturbed.                                             *)
(***************************************************************************)
Rerun ==
    /\ pc = "exit"
    /\ run <= env.reruns
    /\ changes = 0
    /\ history' = Append(history, [exit_code |-> exit_code,
                                   all_files |-> all_files,
                                   outfile |-> outfile, doc |-> doc])
    /\ pc' = "validate"
    /\ all_files' = <<>>
    /\ futures' = <<>>
    /\ completed' = <<>>
    /\ results' = <<>>
    /\ stats' = <<>>
    /\ outfile' = "none"
    /\ doc' = <<>>
    /\ summary' = <<>>
    /\ exit_code' = -1
    /\ UNCHANGED <<args, fs, env, changes>>

(***************************************************************************)
(* Initial states: a command line and a file system                        *)
(***************************************************************************)
Dir(r, w) == [kind |-> "dir", present |-> TRUE, r |-> r, w |-> w, data |-> <<>>]
File(data) == [kind |-> "file", present |-> TRUE, r |-> TRUE, w |-> TRUE,
               data |-> data]
Absent == [kind |-> "file", present |-> FALSE, r |-> TRUE, w |-> TRUE,
           data |-> <<>>]

\* the directories, and the files given by `files` (the others are absent)
mkfs(root, files) ==
    [k \in AbsPaths |->
        IF k = "/w" \/ k = "/w/p/s" THEN Dir(TRUE, TRUE)
        ELSE IF k = "/r" THEN Dir(TRUE, FALSE)
        ELSE IF k = "/w/p" THEN root
        ELSE IF k \in DOMAIN files THEN files[k]
        ELSE Absent]

DefaultArgs ==
    [path |-> "p", include |-> "", exclude |-> "", max_size |-> <<>>,
     include_binary |-> FALSE, output |-> "o.t", format |-> "text",
     comment_style |-> 2, recursive |-> TRUE, workers |-> 2]

Quiet(reruns) == [volatile |-> {}, reruns |-> reruns]

\* three files, one or two workers, no disturbance, run MaxRuns times
PipelineScenarios ==
    { [args |-> [DefaultArgs EXCEPT !.output = out, !.workers = nw,
                                    !.exclude = exc],
       fs |-> mkfs(Dir(TRUE, TRUE),
                   [k \in {"/w/p/a.t", "/w/p/b.T", "/w/p/s/c.b"} |->
                       IF k = "/w/p/b.T" THEN File(b) ELSE File(<<97>>)]),
       env |-> Quiet(MaxRuns - 1)] :
      out \in {"o.t", "./p/o.t"}, nw \in {1, 2}, exc \in {"", "t"},
      b \in {<<97>>, <<NUL>>} }

\* two files, the first disturbed by other processes while it is handled
RaceScenarios ==
    { [args |-> [DefaultArgs EXCEPT !.max_size = ms, !.include_binary = ib,
                                    !.workers = nw],
       fs |-> mkfs(Dir(TRUE, TRUE),
                   [k \in {"/w/p/a.t", "/w/p/b.T"} |-> File(<<97>>)]),
       env |-> [volatile |-> {"/w/p/a.t"}, reruns |-> 0]] :
      ms \in {<<>>, <<1>>}, ib \in BOOLEAN, nw \in {1, 2} }

BytesUpTo(n) == UNION {[1..k -> Bytes] : k \in 0..n}

\* one file, of every content up to MaxLen bytes
ContentScenarios ==
    { [args |-> [DefaultArgs EXCEPT !.include_binary = ib],
       fs |-> mkfs(Dir(TRUE, TRUE), [k \in {"/w/p/a.t"} |-> File(a)]),
       env |-> Quiet(0)] :
      a \in BytesUpTo(MaxLen), ib \in BOOLEAN }

\* one text file of every length up to MaxLen, and every maximum size that
\* lies below, at or above it
SizeScenarios ==
    { [args |-> [DefaultArgs EXCEPT !.max_size = <<ms>>, !.workers = 1],
       fs |-> mkfs(Dir(TRUE, TRUE),
                   [k \in {"/w/p/a.t"} |-> File([j \in 1..n |-> 97])]),
       env |-> Quiet(0)] :
      n \in 0..MaxLen, ms \in 0..2 }

\* three files and the spellings of the include and exclude lists: bare,
\* dotted, upper case, several dots, several tokens, an empty token
FilterScenarios ==
    { [args |-> [DefaultArgs EXCEPT !.include = inc, !.exclude = exc,
                                    !.workers = 1],
       fs |-> mkfs(Dir(TRUE, TRUE),
                   [k \in {"/w/p/a.t", "/w/p/b.T", "/w/p/s/c.b"} |->
                       File(<<97>>)]),
       env |-> Quiet(0)] :
      inc \in {"", "t", ".T", "..t", "..t,B", "B,"},
      exc \in {"", "T", ".b", "..T", "t,b"} }

\* the output file lies in the scanned directory and exists before the run
OutputScenarios ==
    { [args |-> [DefaultArgs EXCEPT !.path = root, !.output = out,
                                    !.include = inc, !.exclude = exc,
                                    !.max_size = ms, !.include_binary = ib],
       fs |-> mkfs(Dir(TRUE, TRUE),
                   [k \in {"/w/p/a.t", "/w/p/o.t"} |-> File(<<97, 97, 97>>)]),
       env |-> Quiet(0)] :
      root \in {"p", "./p"}, out \in {"p/o.t", "/w/p/o.t", "p/s/../o.t"},
      inc \in {"", "t", "b"}, exc \in {"", ".T", "b"},
      ms \in {<<>>, <<0>>, <<1>>, <<2>>}, ib \in BOOLEAN }

\* roots that are missing, not directories or unreadable, and output paths
\* that cannot be opened, or that name a file that is there before the run
SetupScenarios ==
    { [args |-> [DefaultArgs EXCEPT !.path = root, !.output = out,
                                    !.recursive = rec],
       fs |-> mkfs(Dir(readable, TRUE),
                   [k \in {"/w/p/a.t", "/w/p/b.T"} |->
                       IF k = "/w/p/a.t" THEN File(<<97>>) ELSE File(<<NUL>>)]),
       env |-> Quiet(0)] :
      root \in {"p", "q", "p/a.t"},
      out \in {"o.t", "/r/o.t", "p/s", "p/b.T"},
      rec \in BOOLEAN, readable \in BOOLEAN }

Scenarios ==
    PipelineScenarios \cup RaceScenarios \cup ContentScenarios
        \cup SizeScenarios \cup FilterScenarios \cup OutputScenarios
        \cup SetupScenarios

Init ==
    /\ \E sc \in Scenarios :
          /\ args = sc.args
          /\ fs = sc.fs
          /\ env = sc.env
    /\ changes = 0
    /\ history = <<>>
    /\ pc = "validate"
    /\ all_files = <<>>
    /\ futures = <<>>
    /\ completed = <<>>
    /\ results = <<>>
    /\ stats = <<>>
    /\ outfile = "none"
    /\ doc = <<>>
    /\ summary = <<>>
    /\ exit_code = -1

Next ==
    \/ Validate
    \/ Scan
    \/ Collect
    \/ Shutdown
    \/ OpenOutput
    \/ WriteOutput
    \/ PrintSummary
    \/ \E i \in 1..Len(futures) : CheckExists(i)
    \/ \E i \in 1..Len(futures) : CheckRules(i)
    \/ \E i \in 1..Len(futures) : Classify(i)
    \/ \E i \in 1..Len(futures) : ReadMetadata(i)
    \/ \E i \in 1..Len(futures) : ReadContent(i)
    \/ \E k \in AbsPaths : Disturb(k)
    \/ Rerun

Spec == Init /\ [][Next]_vars

(***************************************************************************)
(* Properties                                                              *)
(***************************************************************************)
returned(i) == futures[i].state = "returned"
success(i) == returned(i) /\ futures[i].result.status = "success"

\* the per-file blocks of a document: the triples between its header and
\* its footer
Blocks(d) ==
    [j \in 1..((Len(d) - 2) \div 3) |->
        [header |-> d[3 * j - 1].header,
         content |-> d[3 * j].content,
         footer |-> d[3 * j + 1].footer]]

\* the blocks of the successful tasks from index i on, in discovery order
RECURSIVE SuccessBlocks(_)
SuccessBlocks(i) ==
    IF i > Len(all_files) THEN <<>>
    ELSE (IF success(i) /\ futures[i].file_path = all_files[i]
          THEN <<[header |-> futures[i].result.header,
                  content |-> futures[i].result.content,
                  footer |-> futures[i].result.footer]>>
          ELSE <<>>) \o SuccessBlocks(i + 1)

\* C1: whatever the order in which the tasks end, the blocks of the written
\* document are exactly the blocks of the successful results, in the order
\* in which the walker yielded their paths.
C1_DiscoveryOrder ==
    outfile = "closed" =>
        /\ Len(doc) = 3 * Len(Blocks(doc)) + 2
        /\ Blocks(doc) = SuccessBlocks(1)

\* two successful files ended in the reverse of their discovery order, and
\* the document is written
C1_Witness ==
    /\ outfile = "closed"
    /\ Len(Blocks(doc)) >= 2
    /\ \E j, k \in 1..Len(completed) :
          /\ j < k /\ completed[j] > completed[k]
          /\ success(completed[j]) /\ success(completed[k])

\* C2: process_file always returns a result and lets no exception escape to
\* the loop over executor.map, so a finished run has collected one result
\* for every discovered file.
C2_NoExceptionEscapes ==
    /\ \A i \in 1..Len(futures) : futures[i].state # "raised"
    /\ pc = "exit" /\ futures # <<>> => Len(results) = Len(all_files)

\* the root is an existing directory / the output file can be opened for
\* writing (neither is changed by another process in the model)
root_is_directory == isdir(fs, args.path)
output_can_be_opened == can_open_write(fs, args.output)

\* C3: the exit status is non-zero exactly when the root is not an existing
\* directory or the output file cannot be opened for writing.
C3_ExitStatus ==
    pc = "exit" =>
        (exit_code # 0 <=> ~root_is_directory \/ ~output_can_be_opened)

count(status) == Len(with_status(results, status))

\* C4: the statistics record handed to the document footer, and the printed
\* summary, count the successes, the skips and the errors separately, and
\* the three counts add up to the number of discovered paths.
C4_StatisticsFold ==
    /\ stats # <<>> =>
          /\ stats[1].processed = count("success")
          /\ stats[1].skipped = count("skipped")
          /\ stats[1].errors = count("error")
          /\ stats[1].processed + stats[1].skipped + stats[1].errors
                 = Len(all_files)
    /\ summary # <<>> =>
          /\ summary[1].processed = count("success")
          /\ summary[1].skipped = count("skipped")
          /\ summary[1].errors = count("error")
    /\ outfile = "closed" =>
          /\ doc[Len(doc)].processed = count("success")
          /\ doc[Len(doc)].skipped = count("skipped")

names_output(i) == abspath(futures[i].file_path) = abspath(args.output)

\* C5: a discovered path that names the output file is rejected by
\* should_process_file whatever the include list, exclude list, maximum size
\* and include-binary flag: its task goes no further than the filter, its
\* result is Skipped 'filtered out by rules', and no block of the document
\* is the output file's.
C5_OutputExcluded ==
    /\ \A i \in 1..Len(futures) :
          names_output(i) =>
              /\ futures[i].state # "raised"
              /\ futures[i].at \in {"line 45", "line 48"}
              /\ returned(i) =>
                     futures[i].result =
                         skipped_result(futures[i].file_path,
                                        "filtered out by rules")
    /\ outfile = "closed" =>
          \A j \in 1..Len(Blocks(doc)) :
              Blocks(doc)[j].header.rel_path # relpath(args.output, args.path)

\* the output file, discovered under another spelling of its path, readable,
\* matching the include list, with a maximum size and include-binary set,
\* was rejected, and the document is written
C5_Witness ==
    /\ outfile = "closed"
    /\ \E i \in 1..Len(futures) :
          /\ names_output(i) /\ returned(i)
          /\ futures[i].file_path # args.output
          /\ futures[i].at = "line 48"
          /\ truthy_str(args.include)
          /\ matches_extension(futures[i].file_path, args.include)
          /\ truthy_int(args.max_size)
          /\ args.include_binary

\* the outcome the precedence of C6 gives the file of task i, read off the
\* file system: "filtered", "binary", "encoding" or "success"
Precedence(i) ==
    LET p == futures[i].file_path
    IN  IF ~exists_readable(fs, p) \/ should_process_rules(fs, p, args) # "True"
        THEN "filtered"
        ELSE IF is_binary(fs, p) /\ ~args.include_binary THEN "binary"
        ELSE IF ~decode(Node(fs, p).data).ok THEN "encoding"
        ELSE "success"

Outcome(i) ==
    LET r == futures[i].result
    IN  IF r.status = "success" THEN "success"
        ELSE IF r.status = "error" THEN "error"
        ELSE IF r.reason = "filtered out by rules" THEN "filtered"
        ELSE IF r.reason = "binary file" THEN "binary"
        ELSE IF r.reason = "encoding error" THEN "encoding"
        ELSE "other"

stat_failed(i) ==
    futures[i].metadata # <<>> /\ "error" \in DOMAIN futures[i].metadata

Placeholder ==
    [size |-> 0, size_str |-> <<0, "Unknown">>, created |-> "Unknown",
     modified |-> "Unknown", error |-> "OSError"]

\* C7 as claimed: a file whose stat fails during processing is recorded as
\* an Error result, never as a Success with placeholder metadata.
C7_StatFailureIsError ==
    \A i \in 1..Len(futures) :
        returned(i) /\ stat_failed(i) => futures[i].result.status = "error"

\* C7 as amended: a stat failure is tolerated.  The file gets the
\* placeholder metadata (size 0, 'Unknown') and processing goes on to the
\* read, which alone decides the result: an Error with a reason, left out of
\* the document and counted among the errors, iff opening the file fails;
\* otherwise a Success carrying the placeholder metadata, or Skipped
\* 'encoding error'.
C7_StatFailureTolerated ==
    \A i \in 1..Len(futures) :
        stat_failed(i) =>
            /\ futures[i].metadata = Placeholder
            /\ returned(i) =>
                  /\ Outcome(i) \in {"error", "success", "encoding"}
                  /\ Outcome(i) = "error" <=> "read" \in futures[i].io_failed
                  /\ Outcome(i) = "error" =>
                        /\ futures[i].result.reason # ""
                        /\ stats # <<>> => stats[1].errors = count("error")
                        /\ stats # <<>> => stats[1].errors >= 1
                        /\ outfile = "closed" =>
                              \A j \in 1..Len(Blocks(doc)) :
                                  Blocks(doc)[j].header.rel_path #
                                      relpath(futures[i].file_path, args.path)
                  /\ Outcome(i) = "success" =>
                        futures[i].result.metadata = Placeholder

\* a file whose stat failed is in the written document with the placeholder
\* metadata
C7_Witness ==
    /\ outfile = "closed"
    /\ \E i \in 1..Len(futures) :
          /\ stat_failed(i) /\ Outcome(i) = "success"
          /\ \E j \in 1..Len(Blocks(doc)) :
                Blocks(doc)[j].header.size_str = <<0, "Unknown">>

\* C8 as claimed: a failure to open or read a file that passed the filter
\* always yields an Error result, never a Skipped one.
C8_IOFailureIsError ==
    \A i \in 1..Len(futures) :
        returned(i) /\ futures[i].io_failed # {} =>
            futures[i].result.status = "error"

\* C8 as amended: a failure to open the file in the content read always
\* yields an Error result with a reason.  A failure to open it in the binary
\* classifier makes the file binary: with include-binary unset it is Skipped
\* 'binary file'; with include-binary set processing goes on and the read
\* decides the result.
C8_IOFailure ==
    \A i \in 1..Len(futures) :
        returned(i) =>
            /\ "read" \in futures[i].io_failed =>
                  Outcome(i) = "error" /\ futures[i].result.reason # ""
            /\ "is_binary" \in futures[i].io_failed /\ ~args.include_binary =>
                  Outcome(i) = "binary"
            /\ futures[i].io_failed = {"is_binary"} /\ args.include_binary =>
                  Outcome(i) \in {"success", "encoding"}

\* a file that passed the filter could not be opened by the classifier and
\* was skipped as 'binary file', though its content is text
C8_Witness ==
    \E i \in 1..Len(futures) :
        /\ returned(i)
        /\ "is_binary" \in futures[i].io_failed
        /\ Outcome(i) = "binary"
        /\ futures[i].at = "line 134"
        /\ decode(Node(fs, futures[i].file_path).data).ok

\* C9: the content of a Success result, and the content written to the
\* document, is the file's decoded content symbol for symbol, line endings
\* included.
C9_ContentVerbatim ==
    /\ \A i \in 1..Len(futures) :
          success(i) /\ changes = 0 /\ ~names_output(i) =>
              futures[i].result.content =
                  decode(Node(fs, futures[i].file_path).data).text
    /\ outfile = "closed" /\ changes = 0 =>
          \A j \in 1..Len(Blocks(doc)) :
              \E i \in 1..Len(futures) :
                  /\ success(i)
                  /\ Blocks(doc)[j].content =
                         decode(Node(fs, futures[i].file_path).data).text

previous == history[Len(history)]

\* two undisturbed consecutive runs have both written their document
two_documents ==
    /\ Len(history) >= 1
    /\ changes = 0
    /\ previous.outfile = "closed"
    /\ outfile = "closed"

without_time(piece) == [piece EXCEPT !.generated_on = 0]
without_skipped(piece) == [piece EXCEPT !.skipped = 0]

\* how many of the paths name the output file
RECURSIVE output_among(_)
output_among(paths) ==
    IF paths = <<>> THEN 0
    ELSE (IF abspath(Head(paths)) = abspath(args.output) THEN 1 ELSE 0)
         + output_among(Tail(paths))

\* C10 as claimed: two consecutive runs with the same configuration write
\* the same document but for the generation timestamp, also when the output
\* file lies in the scanned directory.
C10_Idempotent ==
    two_documents =>
        /\ Len(doc) = Len(previous.doc)
        /\ without_time(doc[1]) = without_time(previous.doc[1])
        /\ \A j \in 2..Len(doc) : doc[j] = previous.doc[j]

\* C10 as amended: the two documents are the same but for the generation
\* timestamp and the footer's count of skipped files, which is greater by
\* one in the second run when that run discovers the output file and the
\* first did not, and the same otherwise.
C10_IdempotentButSkipped ==
    two_documents =>
        /\ Len(doc) = Len(previous.doc)
        /\ without_time(doc[1]) = without_time(previous.doc[1])
        /\ \A j \in 2..(Len(doc) - 1) : doc[j] = previous.doc[j]
        /\ without_skipped(doc[Len(doc)])
               = without_skipped(previous.doc[Len(doc)])
        /\ doc[Len(doc)].skipped - previous.doc[Len(doc)].skipped
               = output_among(all_files) - output_among(previous.all_files)

\* the second run has discovered the output file that the first run
\* created, and has written a document with blocks in it
C10_Witness ==
    /\ two_documents
    /\ output_among(all_files) = 1
    /\ output_among(previous.all_files) = 0
    /\ Len(Blocks(doc)) >= 2

\* the sum of the metadata sizes over a set of tasks
RECURSIVE size_over(_)
size_over(S) ==
    IF S = {} THEN 0
    ELSE LET i == CHOOSE j \in S : TRUE
         IN  futures[i].result.metadata.size + size_over(S \ {i})

successes == {i \in 1..Len(futures) : success(i)}

\* C11: the total size of the statistics record, which the document footer
\* and the summary print, is the sum of the metadata sizes of exactly the
\* Success results, which are exactly the files with a block in the
\* document; skipped and errored files add nothing.
C11_TotalSize ==
    /\ stats # <<>> =>
          /\ stats[1].total_size = size_over(successes)
          /\ stats[1].total_size_str
                 = get_human_readable_size(size_over(successes))
    /\ outfile = "closed" =>
          /\ Len(Blocks(doc)) = Cardinality(successes)
          /\ doc[Len(doc)].total_size
                 = get_human_readable_size(size_over(successes))
    /\ summary # <<>> =>
          summary[1].total_size = get_human_readable_size(size_over(successes))

\* a run with a Success and an Error has printed its summary
C11_Witness ==
    /\ summary # <<>>
    /\ Cardinality(successes) >= 1
    /\ count("error") >= 1
    /\ stats[1].total_size >= 1

ended(i) == futures[i].state \in {"returned", "raised", "cancelled"}

\* the kinds of the pieces of a document, in the order written
kinds(d) == [j \in 1..Len(d) |-> d[j].kind]

RECURSIVE block_kinds(_)
block_kinds(n) ==
    IF n = 0 THEN <<>>
    ELSE <<"file header", "content", "file footer">> \o block_kinds(n - 1)

\* a step of a worker thread: a task starts, moves on or ends
worker_step ==
    /\ Len(futures') = Len(futures)
    /\ \E i \in 1..Len(futures) :
          /\ futures'[i] # futures[i]
          /\ futures'[i].state # "cancelled"

output_node(f) == f[abspath(args.output)]

\* the output file is open, or written and closed, in this run
output_touched == outfile # "none"

\* the state of a run whose output file is open or written
written_after_collection ==
    /\ output_touched =>
          /\ Running = {} /\ Pending = {}
          /\ \A i \in 1..Len(futures) : returned(i)
          /\ Len(results) = Len(all_files)
          /\ stats # <<>>
    /\ outfile = "open" => doc = <<>>
    /\ outfile = "closed" =>
          kinds(doc) = <<"document header">>
                          \o block_kinds(Cardinality(successes))
                          \o <<"document footer">>

\* C12: the output file is opened and written only when every task has
\* ended and every result is collected; the document is the header, one
\* contiguous header-content-footer block per Success, then the footer, and
\* is what the file holds; it is written by main alone: no step of a worker
\* changes the output file or the document, and none happens once the file
\* is open.
C12_SingleWriter ==
    [][/\ written_after_collection'
       /\ outfile' = "open" => output_node(fs').data = <<>>
       /\ outfile' = "closed" =>
             output_node(fs').data = document_bytes(doc')
       /\ worker_step =>
             /\ ~output_touched
             /\ UNCHANGED <<fs, doc, outfile>>
       /\ output_node(fs') # output_node(fs) \/ (doc' # doc /\ doc' # <<>>) =>
             /\ pc \in {"open", "write"}
             /\ \A i \in 1..Len(futures) : ended(i)
             /\ UNCHANGED futures]_vars

\* two workers have handled three files, one of them skipped, and the output
\* file has been opened and is about to be written
C12_Witness ==
    /\ outfile = "open"
    /\ args.workers = 2
    /\ Len(futures) >= 3
    /\ Cardinality(successes) >= 2
    /\ count("skipped") >= 1

size_on_disk(i) == Len(Node(fs, futures[i].file_path).data)

in_document(i) ==
    \E j \in 1..Len(Blocks(doc)) :
        Blocks(doc)[j].header.rel_path = relpath(futures[i].file_path, args.path)

\* C13: whenever a maximum size is set, whatever its value (0 included), a
\* file larger than the limit is rejected by the filter, is Skipped and has
\* no block in the document; a file of exactly the limit is not rejected by
\* the size rule.
C13_MaxSizeRejects ==
    \A i \in 1..Len(futures) :
        /\ returned(i) /\ changes = 0 /\ ~names_output(i)
        /\ args.max_size # <<>>
        =>  /\ size_on_disk(i) > args.max_size[1] * KB =>
                  /\ Outcome(i) = "filtered"
                  /\ futures[i].at = "line 48"
                  /\ outfile = "closed" => ~in_document(i)
            /\ size_on_disk(i) = args.max_size[1] * KB
               /\ ~truthy_str(args.include) /\ ~truthy_str(args.exclude) =>
                  Outcome(i) # "filtered"

\* a token with its leading dot removed / with all its leading dots removed
without_dot(t) == IF t # "" /\ Head(t) = "." THEN Tail(t) ELSE t
without_dots(t) == lstrip(t, ".")

tokens(list) == {split(list, ",")[k] : k \in 1..Len(split(list, ","))}

\* the path ends, whatever the case, with "." and one of the normalised tokens
has_extension(p, list, normalised(_)) ==
    \E t \in tokens(list) : endswith(lower(p), lower("." \o normalised(t)))

accepted_by_lists(p, normalised(_)) ==
    /\ args.include = "" \/ has_extension(p, args.include, normalised)
    /\ ~(args.exclude # "" /\ has_extension(p, args.exclude, normalised))

\* the file of task i exists, is readable, is not the output file and is not
\* larger than the maximum size, and no other process has changed it
reaches_lists(i) ==
    /\ returned(i) /\ changes = 0 /\ ~names_output(i)
    /\ exists_readable(fs, futures[i].file_path)
    /\ args.max_size = <<>> \/ size_on_disk(i) <= args.max_size[1] * KB

\* C14 as claimed: such a file is accepted by should_process_file iff the
\* include list is empty or the path ends with '.'+t for an include token t,
\* and it does not end with '.'+t for an exclude token t, case ignored, each
\* token t taken with its leading dot removed.
C14_ExtensionLists ==
    \A i \in 1..Len(futures) :
        reaches_lists(i) =>
            (Outcome(i) # "filtered"
                <=> accepted_by_lists(futures[i].file_path, without_dot))

\* C14 as amended: the same, each token taken with all its leading dots
\* removed, so that '..t' stands for 't' as '.t' does.
C14_ExtensionListsAllDots ==
    \A i \in 1..Len(futures) :
        reaches_lists(i) =>
            (Outcome(i) # "filtered"
                <=> accepted_by_lists(futures[i].file_path, without_dots))

\* a file that matches an include token and an exclude token was rejected,
\* and a file named by an include token written with two dots was accepted
C14_Witness ==
    /\ \E i \in 1..Len(futures) :
          /\ reaches_lists(i)
          /\ args.include # "" /\ args.exclude # ""
          /\ has_extension(futures[i].file_path, args.include, without_dots)
          /\ has_extension(futures[i].file_path, args.exclude, without_dots)
          /\ Outcome(i) = "filtered"
    /\ \E i \in 1..Len(futures) :
          /\ reaches_lists(i)
          /\ ~has_extension(futures[i].file_path, args.include, without_dot)
          /\ Outcome(i) = "success"

\* a result is exactly one of the three variants
one_variant(r) ==
    \/ /\ r.status = "success"
       /\ DOMAIN r = {"file_path", "status", "metadata", "header", "content",
                      "footer"}
    \/ /\ r.status \in {"skipped", "error"}
       /\ DOMAIN r = {"file_path", "status", "reason"}
       /\ r.reason # ""

\* the loop over the results is over
collection_over == pc \in {"open", "write", "summary", "exit"}

\* C15: every discovered path is submitted to the pool exactly once and
\* yields exactly one result: the tasks are the discovered paths in order,
\* none of them raises or is cancelled, and when the collection is over the
\* result list is as long as the path list, its i-th result carries the i-th
\* path, and every result is one variant.
C15_OneResultPerPath ==
    /\ pc # "validate" /\ pc # "scan" =>
          /\ Len(futures) = Len(all_files)
          /\ \A i \in 1..Len(futures) :
                /\ futures[i].file_path = all_files[i]
                /\ futures[i].state \notin {"raised", "cancelled"}
    /\ Len(results) <= Len(all_files)
    /\ \A i \in 1..Len(results) :
          /\ results[i].file_path = all_files[i]
          /\ one_variant(results[i])
    /\ collection_over => Len(results) = Len(all_files)

\* C16: when the root does not exist or is not a directory the run aborts
\* before any processing: the only step is the exit with status 1; no path
\* is discovered, no task is created or started, nothing is collected, and
\* the output file is neither created nor truncated.
C16_AbortBeforeProcessing ==
    [][~isdir(fs, args.path) =>
          /\ pc = "validate" /\ pc' = "exit" /\ exit_code' = 1
          /\ all_files = <<>> /\ futures = <<>> /\ results = <<>>
          /\ outfile = "none"
          /\ UNCHANGED <<fs, all_files, futures, completed, results, stats,
                         outfile, doc, summary>>]_vars

\* a run whose root is not a directory has ended with status 1, and the
\* output file that was there before the run still holds its content
C16_Witness ==
    /\ ~isdir(fs, args.path)
    /\ pc = "exit" /\ exit_code = 1
    /\ futures = <<>>
    /\ output_node(fs).present
    /\ output_node(fs).data # <<>>

content_on_disk(i) == Node(fs, futures[i].file_path).data

has_nul(b) == \E k \in 1..Len(b) : b[k] = NUL

\* the file of task i is readable, unchanged by other processes, and passes
\* the filter
passes_filter(i) ==
    /\ returned(i) /\ changes = 0
    /\ exists_readable(fs, futures[i].file_path)
    /\ should_process_rules(fs, futures[i].file_path, args) = "True"

\* C17: a readable file with no null byte whose whole content is valid UTF-8
\* is never classified as binary, whatever its length, also when it is
\* longer than the sample; with the default settings such a file that passes
\* the filter is a Success, never Skipped 'binary file'.
C17_ValidTextNotBinary ==
    \A i \in 1..Len(futures) :
        /\ passes_filter(i)
        /\ ~has_nul(content_on_disk(i))
        /\ decode(content_on_disk(i)).ok
        =>  /\ ~is_binary(fs, futures[i].file_path)
            /\ Outcome(i) # "binary"
            /\ ~args.include_binary => Outcome(i) = "success"

\* C18: include-binary only removes the 'binary file' skip.  With it set, no
\* result has the reason 'binary file'; a file that passes the filter is a
\* Success, with a block in the document, iff its whole content decodes as
\* UTF-8, null bytes allowed, and is Skipped 'encoding error', with no block
\* in the document, otherwise.
C18_IncludeBinary ==
    args.include_binary =>
        \A i \in 1..Len(futures) :
            returned(i) =>
                /\ Outcome(i) # "binary"
                /\ passes_filter(i) =>
                      /\ Outcome(i) = "success" <=> decode(content_on_disk(i)).ok
                      /\ Outcome(i) = "encoding" <=> ~decode(content_on_disk(i)).ok
                      /\ outfile = "closed" =>
                            (in_document(i) <=> decode(content_on_disk(i)).ok)

\* with include-binary set, a file with a null byte is in the written
\* document
C18_Witness ==
    /\ args.include_binary
    /\ outfile = "closed"
    /\ \E i \in 1..Len(futures) :
          /\ passes_filter(i)
          /\ has_nul(content_on_disk(i))
          /\ is_binary(fs, futures[i].file_path)
          /\ Outcome(i) = "success"
          /\ in_document(i)

=============================================================================
